---- MODULE Spec2Model ----
(***************************************************************************)
(* Turn orchestration of REClassroom: the LangGraph state machine of       *)
(* core/orchestration.py and the four agents of core/agent_utils.py.       *)
(*                                                                         *)
(* Text is modelled as a sequence of one-character strings, so that        *)
(* lower(), strip(), split(',') and the substring test `in` are computed   *)
(* as Python computes them.                                                *)
(***************************************************************************)
EXTENDS Integers, Sequences, FiniteSets, TLC

(***************************************************************************)
(* Bounds                                                                  *)
(***************************************************************************)
MaxStakeholders == 2

\* Longest roster handed to a node that is run on a state of its own
\* (NodeSpec)
MaxRoster == 2
\* turns each browser tab takes on the session
MaxTurns == 2

\* A turn of n speakers executes at most 3 + 3n nodes; the step budget is
\* never the reason a node does not run (see StepBudgetNeverBinds).
MaxSteps == 3 * (MaxStakeholders + MaxRoster) + 4

(***************************************************************************)
(* Text                                                                    *)
(***************************************************************************)
LowerChar(c) ==
  CASE c = "A" -> "a" [] c = "B" -> "b" [] c = "C" -> "c" [] c = "D" -> "d"
    [] c = "E" -> "e" [] c = "F" -> "f" [] c = "G" -> "g" [] c = "H" -> "h"
    [] c = "I" -> "i" [] c = "J" -> "j" [] c = "K" -> "k" [] c = "L" -> "l"
    [] c = "M" -> "m" [] c = "N" -> "n" [] c = "O" -> "o" [] c = "P" -> "p"
    [] c = "Q" -> "q" [] c = "R" -> "r" [] c = "S" -> "s" [] c = "T" -> "t"
    [] c = "U" -> "u" [] c = "V" -> "v" [] c = "W" -> "w" [] c = "X" -> "x"
    [] c = "Y" -> "y" [] c = "Z" -> "z" [] OTHER -> c

\* str.lower()
Lower(s) == [i \in 1..Len(s) |-> LowerChar(s[i])]

\* str.strip(): leading and trailing blanks removed
Strip(s) ==
  LET nonBlank == {i \in 1..Len(s) : s[i] # " "}
  IN  IF nonBlank = {} THEN <<>>
      ELSE LET lo == CHOOSE i \in nonBlank : \A j \in nonBlank : i <= j
               hi == CHOOSE i \in nonBlank : \A j \in nonBlank : j <= i
           IN  SubSeq(s, lo, hi)

\* Python's `sub in s` on strings
Contains(sub, s) ==
  \E i \in 0..(Len(s) - Len(sub)) : SubSeq(s, i + 1, i + Len(sub)) = sub

\* str.split(','): the pieces between commas, empty pieces kept
RECURSIVE SplitComma(_)
SplitComma(s) ==
  LET commas == {i \in 1..Len(s) : s[i] = ","}
  IN  IF commas = {} THEN <<s>>
      ELSE LET k == CHOOSE i \in commas : \A j \in commas : i <= j
           IN  <<SubSeq(s, 1, k - 1)>> \o SplitComma(SubSeq(s, k + 1, Len(s)))

\* Sequences over S of length at most n
SeqUpTo(S, n) == UNION {[1..k -> S] : k \in 0..n}

(***************************************************************************)
(* Literals of the source                                                  *)
(***************************************************************************)
END == <<"E","N","D">>
Student == <<"s","t","u","d","e","n","t">>
System == <<"s","y","s","t","e","m">>

Hard == "Hard (Expert Mode)"
Medium == "Medium (Hint Mode)"
Easy == "Easy (Tutor Mode)"
Difficulties == {Easy, Medium, Hard}

general_greetings ==
  << <<"h","i"," ","a","l","l">>,
     <<"h","e","l","l","o"," ","a","l","l">>,
     <<"h","i"," ","e","v","e","r","y","o","n","e">>,
     <<"h","e","l","l","o"," ","e","v","e","r","y","o","n","e">>,
     <<"h","e","y"," ","e","v","e","r","y","o","n","e">>,
     <<"h","o","w"," ","a","r","e"," ","y","o","u">>,
     <<"w","h","a","t"," ","d","o"," ","y","o","u"," ","a","l","l"," ","t","h","i","n","k">>,
     <<"y","o","u","r"," ","i","n","i","t","i","a","l"," ","t","h","o","u","g","h","t","s">> >>

bare_greetings ==
  << <<"h","i">>, <<"h","e","l","l","o">>, <<"h","e","y">> >>

(***************************************************************************)
(* Inputs: scenario configuration and the human's message                  *)
(***************************************************************************)
Librarian == <<"L","i","b","r","a","r","i","a","n">>
ITSecurity == <<"I","T"," ","S","e","c","u","r","i","t","y">>
HeadLibrarian == <<"H","e","a","d"," ","L","i","b","r","a","r","i","a","n">>
DirectorOfITSecurity ==
  <<"D","i","r","e","c","t","o","r"," ","o","f"," ","I","T"," ",
    "S","e","c","u","r","i","t","y">>
BudgetOffice == <<"B","u","d","g","e","t"," ","O","f","f","i","c","e">>

\* Roles an instructor configures (Instructor_Panel requires a non-empty
\* role; the data model keeps roles distinct from the sentinel "END").
RoleNames == {Librarian, HeadLibrarian, DirectorOfITSecurity}

StakeholderLists == SeqUpTo(RoleNames, MaxStakeholders)

MsgHiEveryone == <<"h","i"," ","e","v","e","r","y","o","n","e">>
MsgHiEveryoneRaw == <<" ","H","i"," ","E","v","e","r","y","o","n","e","!"," ">>
MsgHey == <<"H","e","y">>
MsgThis == <<"t","h","i","s">>

StudentMessages == {MsgHiEveryone, MsgHiEveryoneRaw, MsgHey, MsgThis}

ReplyText == <<"o","k">>
ErrorText == <<"e","r","r">>

Message(r, c) == [role |-> r, content |-> c]


\* A session as the caller reads it at the start of a turn: a fresh one
\* (create_session) or one resumed after an earlier turn.  The caller's
\* initial_state carries no 'elicited_requirements' key, which
\* conflict_check_agent reads as the empty list; a state that carries the
\* list is the third case.
NoScore == [t |-> "none", n |-> 0]
IntScore(k) == [t |-> "int", n |-> k]

EmptyStatus == [r \in {} |-> [status |-> "Agreed", reason |-> ""]]

Entry(st, rs) == [status |-> st, reason |-> rs]

Session(h, reqs, ns, sc, rs, ah) ==
  [history |-> h, elicited_requirements |-> reqs, negotiation_status |-> ns,
   score |-> sc, reason |-> rs, ambiguity_history |-> ah]

PriorHistory == <<Message(Student, MsgHey), Message(Librarian, ReplyText)>>
PriorStatus == ("R1" :> Entry("Disputed", "why"))

Sessions ==
  { Session(<<>>, <<>>, EmptyStatus, NoScore, "", <<>>),
    Session(PriorHistory, <<>>, PriorStatus,
            IntScore(3), "clear", <<IntScore(3)>>),
    Session(PriorHistory, <<"R1", "R2">>, PriorStatus,
            IntScore(3), "clear", <<IntScore(3)>>) }

(***************************************************************************)
(* The completion service: what one call may produce                       *)
(***************************************************************************)
RosterValue(t, s, l) == [t |-> t, s |-> s, l |-> l]

StrITSecurityLibrarian ==
  <<"I","T"," ","S","e","c","u","r","i","t","y",","," ",
    "L","i","b","r","a","r","i","a","n">>
StrLibrarianComma == <<"l","i","b","r","a","r","i","a","n",",">>

RosterValues ==
  { RosterValue("missing", <<>>, <<>>),
    RosterValue("str", <<>>, <<>>),
    RosterValue("str", StrITSecurityLibrarian, <<>>),
    RosterValue("str", BudgetOffice, <<>>),
    RosterValue("str", StrLibrarianComma, <<>>),
    RosterValue("list", <<>>, <<>>),
    RosterValue("list", <<>>, <<ITSecurity, Librarian>>),
    RosterValue("list", <<>>, <<Lower(HeadLibrarian)>>),
    RosterValue("list", <<>>, << <<>> >>),
    RosterValue("num", <<>>, <<>>) }

RoutingResponses ==
  { [kind |-> k, roster |-> RosterValue("missing", <<>>, <<>>), conc |-> "missing"] :
      k \in {"error", "unparsable"} }
  \cup
  { [kind |-> "object", roster |-> r, conc |-> c] :
      r \in RosterValues, c \in {"missing", "true"} }

\* what the router is handed when it does not consult the service
NoRoutingResponse ==
  [kind |-> "error", roster |-> RosterValue("missing", <<>>, <<>>),
   conc |-> "missing"]

PersonaResponses == {"ok", "error"}

ScoreValues == {NoScore, IntScore(3), IntScore(11)}

AmbiguityResponses ==
  { [kind |-> "error", score |-> NoScore, reason |-> "none"] }
  \cup
  { [kind |-> "object", score |-> s, reason |-> "clear"] : s \in ScoreValues }

ConflictObjects ==
  { ("R1" :> Entry("Disputed", "why")) @@ ("R2" :> Entry("Disputed", "")),
    ("R2" :> Entry("Agreed", "")),
    ("R1" :> Entry("Agreed", "")) @@ ("R2" :> Entry("Agreed", ""))
      @@ ("X" :> Entry("Disputed", "why")) }

ConflictResponses ==
  { [kind |-> k, object |-> EmptyStatus] : k \in {"error", "unparsable"} }
  \cup
  { [kind |-> "object", object |-> o] : o \in ConflictObjects }

(***************************************************************************)
(* State of one turn: the GraphState threaded through the graph            *)
(***************************************************************************)
VARIABLES
  pc,                       \* the node the graph executes next
  stakeholders,             \* roles of state['stakeholders'], in order
  difficulty_level,
  elicited_requirements,    \* requirement strings of the list, in order
  dialogue_history,
  turn_roster,
  is_concluding_turn,
  negotiation_status,
  current_ambiguity_score,
  ambiguity_score_reason,
  ambiguity_history,
  visited,                  \* history: the nodes executed, in order
  calls,                    \* history: the completion-service calls made
  outcomes,                 \* history: success of each persona call
  routed,                   \* history: the roster the router returned
  input,                    \* history: the state conversation_graph.invoke got
  reply,                    \* history: the service's answer to the node that
                            \* ran last, NoReply if that node made no call
  last_check,               \* history: the answer to the latest conflict
                            \* check whose call succeeded, NoReply if none
  prompt,                   \* history: the persona and the peers named in
                            \* the system prompt of the latest persona call
  store,                    \* the documents of the 'sessions' collection
                            \* for the scenario and the student, in the
                            \* order they were created; a document's id is
                            \* its position
  client                    \* per browser tab: the page script's position,
                            \* its session id (0: none yet),
                            \* st.session_state.session_data, turns written

vars ==
  <<pc, stakeholders, difficulty_level, elicited_requirements,
    dialogue_history, turn_roster, is_concluding_turn, negotiation_status,
    current_ambiguity_score, ambiguity_score_reason, ambiguity_history,
    visited, calls, outcomes, routed, input, reply, last_check, prompt,
    store, client>>

persistence == <<store, client>>

config == <<stakeholders, difficulty_level, elicited_requirements>>

NoReply == [kind |-> "none"]

NoPrompt == [role |-> <<>>, other_roles |-> <<>>]

\* st.session_state.session_data before the first fetch
NoDocument == [status |-> "none"]

\* Browser tabs open on the same scenario, all as the student 'anonymous'
Clients == {"tab1", "tab2"}

Snapshot(h, r, ns, sc, rs, ah) ==
  [dialogue_history |-> h, turn_roster |-> r, negotiation_status |-> ns,
   current_ambiguity_score |-> sc, ambiguity_score_reason |-> rs,
   ambiguity_history |-> ah]

\* The page before the student has typed anything: no turn is running.
Init ==
  /\ pc = "idle"
  /\ stakeholders = <<>>
  /\ difficulty_level = Easy
  /\ elicited_requirements = <<>>
  /\ dialogue_history = <<>>
  /\ turn_roster = <<>>
  /\ is_concluding_turn = FALSE
  /\ negotiation_status = EmptyStatus
  /\ current_ambiguity_score = NoScore
  /\ ambiguity_score_reason = ""
  /\ ambiguity_history = <<>>
  /\ visited = <<>>
  /\ calls = <<>>
  /\ outcomes = <<>>
  /\ routed = <<>>
  /\ input = Snapshot(<<>>, <<>>, EmptyStatus, NoScore, "", <<>>)
  /\ reply = NoReply
  /\ last_check = NoReply
  /\ prompt = NoPrompt
  /\ store = <<>>
  /\ client = [c \in Clients |->
                 [pc |-> "find", session_id |-> 0,
                  session_data |-> NoDocument, turns |-> 0]]

\* graph.invoke(initial_state) for a given scenario, session, latest message
\* and roster
InvokeWith(sl, d, s, m, r, node) ==
  /\ pc' = node
  /\ stakeholders' = sl
  /\ difficulty_level' = d
  /\ elicited_requirements' = s.elicited_requirements
  /\ dialogue_history' = Append(s.history, Message(Student, m))
  /\ turn_roster' = r
  /\ is_concluding_turn' = FALSE
  /\ negotiation_status' = s.negotiation_status
  /\ current_ambiguity_score' = s.score
  /\ ambiguity_score_reason' = s.reason
  /\ ambiguity_history' = s.ambiguity_history
  /\ routed' = r
  /\ input' = Snapshot(dialogue_history', r, s.negotiation_status,
                       s.score, s.reason, s.ambiguity_history)
  /\ reply' = NoReply
  /\ UNCHANGED <<persistence, visited, calls, outcomes, last_check, prompt>>

\* Student_Environment.app: the caller appends the student's message and
\* invokes the graph with an empty roster.
Invoke ==
  /\ pc = "idle"
  /\ \E sl \in StakeholderLists, d \in Difficulties, m \in StudentMessages,
        s \in Sessions :
       InvokeWith(sl, d, s, m, <<>>, "start")


(***************************************************************************)
(* agent_utils.py: the four agents, as functions of the state they read    *)
(* and of the completion service's answer                                  *)
(***************************************************************************)
InSeq(x, seq) == \E i \in 1..Len(seq) : seq[i] = x

Last(seq) == seq[Len(seq)]

\* Variant: the message is matched as typed
IsGeneralGreeting_AsTyped(content) ==
  \/ \E i \in 1..Len(general_greetings) :
        Contains(general_greetings[i], content)
  \/ \E i \in 1..Len(bare_greetings) : content = bare_greetings[i]

\* get_routing_choice, the rule-based check for general greetings
IsGeneralGreeting(content) ==
  \E student_message \in {Strip(Lower(content))} :
    \/ \E i \in 1..Len(general_greetings) :
          Contains(general_greetings[i], student_message)
    \/ \E i \in 1..Len(bare_greetings) : student_message = bare_greetings[i]

\* `if not roster_value`: None, "", [] are falsy
Falsy(rv) ==
  \/ rv.t = "missing"
  \/ rv.t = "str" /\ rv.s = <<>>
  \/ rv.t = "list" /\ rv.l = <<>>

\* llm_choices: both formats of the roster value, each choice stripped
LlmChoices(rv) ==
  IF rv.t = "str"
    THEN LET parts == SplitComma(rv.s)
         IN  [i \in 1..Len(parts) |-> Strip(parts[i])]
    ELSE IF rv.t = "list"
      THEN [i \in 1..Len(rv.l) |-> Strip(rv.l[i])]
      ELSE <<>>

\* Variant: the official role is looked for inside the choice
RECURSIVE MatchRoles_RoleInChoice(_, _, _)
MatchRoles_RoleInChoice(choice, roles, validated) ==
  IF roles = <<>> THEN validated
  ELSE LET official_role == Head(roles)
           v == IF /\ Contains(Lower(official_role), Lower(choice))
                   /\ ~InSeq(official_role, validated)
                  THEN Append(validated, official_role)
                  ELSE validated
       IN  MatchRoles_RoleInChoice(choice, Tail(roles), v)

\* Variant: a role already chosen is chosen again
RECURSIVE MatchRoles_Repeats(_, _, _)
MatchRoles_Repeats(choice, roles, validated) ==
  IF roles = <<>> THEN validated
  ELSE LET official_role == Head(roles)
           v == IF Contains(Lower(choice), Lower(official_role))
                  THEN Append(validated, official_role)
                  ELSE validated
       IN  MatchRoles_Repeats(choice, Tail(roles), v)

\* the inner loop over the official roles, for one choice
RECURSIVE MatchRoles(_, _, _)
MatchRoles(choice, roles, validated) ==
  IF roles = <<>> THEN validated
  ELSE LET official_role == Head(roles)
           v == IF /\ Contains(Lower(choice), Lower(official_role))
                   /\ ~InSeq(official_role, validated)
                  THEN Append(validated, official_role)
                  ELSE validated
       IN  MatchRoles(choice, Tail(roles), v)

\* Variant: the choices are taken as they come, without matching
RECURSIVE ValidateChoices_Unchecked(_, _, _)
ValidateChoices_Unchecked(choices, roles, validated) ==
  IF choices = <<>> THEN validated
  ELSE ValidateChoices_Unchecked(Tail(choices), roles,
                                 Append(validated, Head(choices)))

\* the outer loop over the choices
RECURSIVE ValidateChoices(_, _, _)
ValidateChoices(choices, roles, validated) ==
  IF choices = <<>> THEN validated
  ELSE ValidateChoices(Tail(choices), roles,
                       MatchRoles(Head(choices), roles, validated))

\* Variant: the safe fallback does not conclude the turn
RoutingEnd_NotConcluding == [roster |-> <<END>>, is_concluding |-> FALSE]

RoutingEnd == [roster |-> <<END>>, is_concluding |-> TRUE]

\* Variant: the greeting roster is closed with the sentinel
GetRoutingChoice_GreetingSentinel(history, roles, resp) ==
  IF IsGeneralGreeting(history[Len(history)].content)
    THEN [roster |-> Append(roles, END), is_concluding |-> FALSE,
          called |-> FALSE]
  ELSE IF resp.kind # "object" \/ Falsy(resp.roster)
         \/ ValidateChoices(LlmChoices(resp.roster), roles, <<>>) = <<>>
    THEN RoutingEnd @@ [called |-> TRUE]
    ELSE [roster |-> ValidateChoices(LlmChoices(resp.roster), roles, <<>>),
          is_concluding |-> (resp.conc = "true"), called |-> TRUE]

\* get_routing_choice; resp is what the completion service would answer
GetRoutingChoice(history, roles, resp) ==
  IF IsGeneralGreeting(history[Len(history)].content)
    THEN [roster |-> roles, is_concluding |-> FALSE, called |-> FALSE]
  ELSE IF resp.kind # "object"
    THEN RoutingEnd @@ [called |-> TRUE]
  ELSE IF Falsy(resp.roster)
    THEN RoutingEnd @@ [called |-> TRUE]
  ELSE LET validated_choices ==
             ValidateChoices(LlmChoices(resp.roster), roles, <<>>)
       IN  IF validated_choices = <<>>
             THEN RoutingEnd @@ [called |-> TRUE]
             ELSE [roster |-> validated_choices,
                   is_concluding |-> (resp.conc = "true"),
                   called |-> TRUE]

\* Variants of generate_agent_response with a slip in one branch
GenerateAgentResponse_NoPopOnError(history, roster, roles, resp) ==
  IF roster # <<>> /\ InSeq(Head(roster), roles) /\ resp = "ok"
    THEN [dialogue_history |->
            Append(history, Message(Head(roster), ReplyText)),
          turn_roster |-> Tail(roster), has_roster |-> TRUE, called |-> TRUE]
    ELSE [dialogue_history |-> Append(history, Message(System, ErrorText)),
          turn_roster |-> roster, has_roster |-> TRUE, called |-> TRUE]

GenerateAgentResponse_PopLast(history, roster, roles, resp) ==
  IF roster = <<>> \/ ~InSeq(Head(roster), roles)
    THEN [dialogue_history |-> Append(history, Message(System, ErrorText)),
          turn_roster |-> roster, has_roster |-> FALSE, called |-> FALSE]
    ELSE [dialogue_history |->
            Append(history, IF resp = "ok"
                              THEN Message(Head(roster), ReplyText)
                              ELSE Message(System, ErrorText)),
          turn_roster |-> SubSeq(roster, 1, Len(roster) - 1),
          has_roster |-> TRUE, called |-> TRUE]

GenerateAgentResponse_SilentError(history, roster, roles, resp) ==
  IF roster = <<>> \/ ~InSeq(Head(roster), roles)
    THEN [dialogue_history |-> Append(history, Message(System, ErrorText)),
          turn_roster |-> roster, has_roster |-> FALSE, called |-> FALSE]
    ELSE [dialogue_history |->
            IF resp = "ok"
              THEN Append(history, Message(Head(roster), ReplyText))
              ELSE history,
          turn_roster |-> Tail(roster),
          has_roster |-> TRUE, called |-> TRUE]

\* Variant: a failed call overwrites the latest message with the error
GenerateAgentResponse_ErrorOverwrites(history, roster, roles, resp) ==
  IF roster = <<>>
    THEN [dialogue_history |-> Append(history, Message(System, ErrorText)),
          turn_roster |-> roster, has_roster |-> FALSE, called |-> FALSE]
  ELSE LET speaker == Head(roster)
       IN  IF ~InSeq(speaker, roles)
             THEN [dialogue_history |->
                     Append(history, Message(System, ErrorText)),
                   turn_roster |-> roster, has_roster |-> FALSE,
                   called |-> FALSE]
           ELSE IF resp = "ok"
             THEN [dialogue_history |->
                     Append(history, Message(speaker, ReplyText)),
                   turn_roster |-> Tail(roster), has_roster |-> TRUE,
                   called |-> TRUE]
             ELSE [dialogue_history |->
                     [history EXCEPT ![Len(history)] =
                        Message(System, ErrorText)],
                   turn_roster |-> Tail(roster), has_roster |-> TRUE,
                   called |-> TRUE]

\* Variant: the reply is filed under the student's role
GenerateAgentResponse_ReplyAsStudent(history, roster, roles, resp) ==
  IF roster = <<>>
    THEN [dialogue_history |-> Append(history, Message(System, ErrorText)),
          turn_roster |-> roster, has_roster |-> FALSE, called |-> FALSE]
  ELSE LET speaker == Head(roster)
       IN  IF ~InSeq(speaker, roles)
             THEN [dialogue_history |->
                     Append(history, Message(System, ErrorText)),
                   turn_roster |-> roster, has_roster |-> FALSE,
                   called |-> FALSE]
           ELSE IF resp = "ok"
             THEN [dialogue_history |->
                     Append(history, Message(Student, ReplyText)),
                   turn_roster |-> Tail(roster), has_roster |-> TRUE,
                   called |-> TRUE]
             ELSE [dialogue_history |->
                     Append(history, Message(System, ErrorText)),
                   turn_roster |-> Tail(roster), has_roster |-> TRUE,
                   called |-> TRUE]

\* Variant: a failed persona call empties the roster
GenerateAgentResponse_ErrorEndsTurn(history, roster, roles, resp) ==
  IF roster = <<>>
    THEN [dialogue_history |-> Append(history, Message(System, ErrorText)),
          turn_roster |-> roster, has_roster |-> FALSE, called |-> FALSE]
  ELSE LET speaker == Head(roster)
       IN  IF ~InSeq(speaker, roles)
             THEN [dialogue_history |->
                     Append(history, Message(System, ErrorText)),
                   turn_roster |-> roster, has_roster |-> FALSE,
                   called |-> FALSE]
           ELSE IF resp = "ok"
             THEN [dialogue_history |->
                     Append(history, Message(speaker, ReplyText)),
                   turn_roster |-> Tail(roster), has_roster |-> TRUE,
                   called |-> TRUE]
             ELSE [dialogue_history |->
                     Append(history, Message(System, ErrorText)),
                   turn_roster |-> <<>>, has_roster |-> TRUE,
                   called |-> TRUE]

\* generate_agent_response; has_roster tells whether the returned dict
\* carries the key 'turn_roster'
GenerateAgentResponse(history, roster, roles, resp) ==
  IF roster = <<>>
    THEN [dialogue_history |-> Append(history, Message(System, ErrorText)),
          turn_roster |-> roster, has_roster |-> FALSE, called |-> FALSE]
  ELSE LET speaker == Head(roster)
       IN  IF ~InSeq(speaker, roles)
             THEN [dialogue_history |->
                     Append(history, Message(System, ErrorText)),
                   turn_roster |-> roster, has_roster |-> FALSE,
                   called |-> FALSE]
           ELSE IF resp = "ok"
             THEN [dialogue_history |->
                     Append(history, Message(speaker, ReplyText)),
                   turn_roster |-> Tail(roster), has_roster |-> TRUE,
                   called |-> TRUE]
             ELSE [dialogue_history |->
                     Append(history, Message(System, ErrorText)),
                   turn_roster |-> Tail(roster), has_roster |-> TRUE,
                   called |-> TRUE]

(***************************************************************************)
(* persona_engine.py: the parts of the system prompt that name roles       *)
(***************************************************************************)

\* Variant: only the first entry with the persona's role is left out
RECURSIVE OtherRoles_FirstOnly(_, _)
OtherRoles_FirstOnly(role, all_stakeholders) ==
  IF all_stakeholders = <<>> THEN <<>>
  ELSE IF Head(all_stakeholders) = role THEN Tail(all_stakeholders)
  ELSE <<Head(all_stakeholders)>>
       \o OtherRoles_FirstOnly(role, Tail(all_stakeholders))

\* other_roles = [s['role'] for s in all_stakeholders if s['role'] != role]
RECURSIVE OtherRoles(_, _)
OtherRoles(role, all_stakeholders) ==
  IF all_stakeholders = <<>> THEN <<>>
  ELSE (IF Head(all_stakeholders) # role
          THEN <<Head(all_stakeholders)>> ELSE <<>>)
       \o OtherRoles(role, Tail(all_stakeholders))

\* generate_system_prompt: the role and the peer list the prompt is built
\* from
GenerateSystemPrompt(role, all_stakeholders) ==
  [role |-> role, other_roles |-> OtherRoles(role, all_stakeholders)]

\* Variant: the service's mapping is merged into the previous status
ConflictCheckAgent_Patches(difficulty, reqs, status, resp) ==
  IF difficulty = Hard
    THEN [negotiation_status |-> status, called |-> FALSE]
  ELSE IF reqs = <<>>
    THEN [negotiation_status |-> EmptyStatus, called |-> FALSE]
  ELSE IF resp.kind = "object"
    THEN [negotiation_status |-> resp.object @@ status, called |-> TRUE]
    ELSE [negotiation_status |-> status, called |-> TRUE]

\* Variant: without requirements the previous status is kept
ConflictCheckAgent_EmptyKeeps(difficulty, reqs, status, resp) ==
  IF difficulty = Hard
    THEN [negotiation_status |-> status, called |-> FALSE]
  ELSE IF reqs = <<>>
    THEN [negotiation_status |-> status, called |-> FALSE]
  ELSE IF resp.kind = "object"
    THEN [negotiation_status |-> resp.object, called |-> TRUE]
    ELSE [negotiation_status |-> status, called |-> TRUE]

\* Variant: the expert level clears the status
ConflictCheckAgent_HardEmpties(difficulty, reqs, status, resp) ==
  IF difficulty = Hard
    THEN [negotiation_status |-> EmptyStatus, called |-> FALSE]
  ELSE IF reqs = <<>>
    THEN [negotiation_status |-> EmptyStatus, called |-> FALSE]
  ELSE IF resp.kind = "object"
    THEN [negotiation_status |-> resp.object, called |-> TRUE]
    ELSE [negotiation_status |-> status, called |-> TRUE]

\* Variant: a failed call clears the status
ConflictCheckAgent_FailureEmpties(difficulty, reqs, status, resp) ==
  IF difficulty = Hard
    THEN [negotiation_status |-> status, called |-> FALSE]
  ELSE IF reqs = <<>>
    THEN [negotiation_status |-> EmptyStatus, called |-> FALSE]
  ELSE IF resp.kind = "object"
    THEN [negotiation_status |-> resp.object, called |-> TRUE]
    ELSE [negotiation_status |-> EmptyStatus, called |-> TRUE]

\* Variant: a failed call puts back the status the turn started with
ConflictCheckAgent_FailureResets(difficulty, reqs, status, resp) ==
  IF difficulty = Hard
    THEN [negotiation_status |-> status, called |-> FALSE]
  ELSE IF reqs = <<>>
    THEN [negotiation_status |-> EmptyStatus, called |-> FALSE]
  ELSE IF resp.kind = "object"
    THEN [negotiation_status |-> resp.object, called |-> TRUE]
    ELSE [negotiation_status |-> input.negotiation_status, called |-> TRUE]

\* conflict_check_agent
ConflictCheckAgent(difficulty, reqs, status, resp) ==
  IF difficulty = Hard
    THEN [negotiation_status |-> status, called |-> FALSE]
  ELSE IF reqs = <<>>
    THEN [negotiation_status |-> EmptyStatus, called |-> FALSE]
  ELSE IF resp.kind = "object"
    THEN [negotiation_status |-> resp.object, called |-> TRUE]
    ELSE [negotiation_status |-> status, called |-> TRUE]

\* Variant: a failed call leaves the history as it was
AmbiguityScorerAgent_ErrorNoAppend(history, resp) ==
  IF resp.kind = "object"
    THEN LET score == IF resp.score = NoScore THEN IntScore(10)
                      ELSE resp.score
         IN  [current_ambiguity_score |-> score,
              ambiguity_score_reason |-> resp.reason,
              ambiguity_history |-> Append(history, score)]
    ELSE [current_ambiguity_score |-> IntScore(10),
          ambiguity_score_reason |-> "analysis error",
          ambiguity_history |-> history]

\* ambiguity_scorer_agent
AmbiguityScorerAgent(history, resp) ==
  IF resp.kind = "object"
    THEN LET score == IF resp.score = NoScore THEN IntScore(10)
                      ELSE resp.score
         IN  [current_ambiguity_score |-> score,
              ambiguity_score_reason |-> resp.reason,
              ambiguity_history |-> Append(history, score)]
    ELSE [current_ambiguity_score |-> IntScore(10),
          ambiguity_score_reason |-> "analysis error",
          ambiguity_history |-> Append(history, IntScore(10))]

(***************************************************************************)
(* orchestration.py: the nodes and edges of the graph                      *)
(***************************************************************************)
\* Variant: every difficulty starts with the ambiguity check
ConditionalEntryRouter_Always(difficulty) == "ambiguity_check"

\* Variant: an expert turn enters the loop without routing
ConditionalEntryRouter_SkipsRouter(difficulty) ==
  IF difficulty = Hard THEN "main_loop_router" ELSE "ambiguity_check"

\* conditional_entry_router
ConditionalEntryRouter(difficulty) ==
  IF difficulty = Hard THEN "router" ELSE "ambiguity_check"

\* Variant: a concluding turn ends at once
ConditionalRouter_Concluding(roster) ==
  IF roster = <<>> \/ Head(roster) = END \/ is_concluding_turn
    THEN "end" ELSE "agent_turn"

\* Variant: the sentinel is treated as a speaker
ConditionalRouter_IgnoresSentinel(roster) ==
  IF roster = <<>> THEN "end" ELSE "agent_turn"

\* Variant: the turn ends one speaker early
ConditionalRouter_OneLeft(roster) ==
  IF Len(roster) <= 1 \/ Head(roster) = END THEN "end" ELSE "agent_turn"

\* conditional_router
ConditionalRouter(roster) ==
  IF roster = <<>> \/ Head(roster) = END THEN "end" ELSE "agent_turn"

\* Variant: the test on the difficulty is inverted
AfterAgentTurn_Inverted(difficulty) ==
  IF difficulty = Hard THEN "conflict_check" ELSE "main_loop_router"

\* the conditional edge after agent_turn
AfterAgentTurn(difficulty) ==
  IF difficulty # Hard THEN "conflict_check" ELSE "main_loop_router"

\* add_edge("ambiguity_check", "router")
EdgeAmbiguityCheck == "router"

\* Variant: the router hands over to agent_turn directly
EdgeRouter_AgentTurn == "agent_turn"

\* add_edge("router", "main_loop_router")
EdgeRouter == "main_loop_router"

\* Variant: the loop is hosted by the router itself
EdgeConflictCheck_Router == "router"

\* add_edge("conflict_check", "main_loop_router")
EdgeConflictCheck == "main_loop_router"

Ran(node) == /\ Len(visited) < MaxSteps
             /\ visited' = Append(visited, node)

\* set_conditional_entry_point
EntryPoint ==
  /\ pc = "start"
  /\ pc' = ConditionalEntryRouter(difficulty_level)
  /\ UNCHANGED <<persistence, config, dialogue_history, turn_roster, is_concluding_turn,
                 negotiation_status, current_ambiguity_score,
                 ambiguity_score_reason, ambiguity_history,
                 visited, calls, outcomes, routed, input, reply,
                 last_check, prompt>>

\* ambiguity_check_node, then the edge to router
AmbiguityCheckNode ==
  /\ pc = "ambiguity_check"
  /\ Ran("ambiguity_check")
  /\ \E resp \in AmbiguityResponses :
       \E r \in {AmbiguityScorerAgent(ambiguity_history, resp)} :
           /\ current_ambiguity_score' = r.current_ambiguity_score
           /\ ambiguity_score_reason' = r.ambiguity_score_reason
           /\ ambiguity_history' = r.ambiguity_history
           /\ reply' = resp
  /\ calls' = Append(calls, "ambiguity")
  /\ pc' = EdgeAmbiguityCheck
  /\ UNCHANGED <<persistence, config, dialogue_history, turn_roster, is_concluding_turn,
                 negotiation_status, outcomes, routed, input, last_check, prompt>>

\* router_node, then the edge to main_loop_router
RouterNode ==
  /\ pc = "router"
  /\ Ran("router")
  /\ \E resp \in IF IsGeneralGreeting(Last(dialogue_history).content)
                   THEN {NoRoutingResponse} ELSE RoutingResponses :
       \E routing_decision \in
            {GetRoutingChoice(dialogue_history, stakeholders, resp)} :
           /\ turn_roster' = routing_decision.roster
           /\ is_concluding_turn' = routing_decision.is_concluding
           /\ routed' = routing_decision.roster
           /\ calls' = IF routing_decision.called
                         THEN Append(calls, "routing") ELSE calls
           /\ reply' = IF routing_decision.called THEN resp ELSE NoReply
  /\ pc' = EdgeRouter
  /\ UNCHANGED <<persistence, config, dialogue_history, negotiation_status,
                 current_ambiguity_score, ambiguity_score_reason,
                 ambiguity_history, outcomes, input, last_check, prompt>>

\* Variant: the loop controller drops the speaker at the front of the roster
MainLoopRouter_Pops ==
  /\ pc = "main_loop_router"
  /\ Ran("main_loop_router")
  /\ pc' = ConditionalRouter(turn_roster)
  /\ turn_roster' = IF Len(turn_roster) > 1 THEN Tail(turn_roster)
                                             ELSE turn_roster
  /\ reply' = NoReply
  /\ UNCHANGED <<persistence, config, dialogue_history, is_concluding_turn,
                 negotiation_status, current_ambiguity_score,
                 ambiguity_score_reason, ambiguity_history,
                 calls, outcomes, routed, input, last_check, prompt>>

\* main_loop_router (lambda state: {}), then conditional_router
MainLoopRouter ==
  /\ pc = "main_loop_router"
  /\ Ran("main_loop_router")
  /\ pc' = ConditionalRouter(turn_roster)
  /\ reply' = NoReply
  /\ UNCHANGED <<persistence, config, dialogue_history, turn_roster, is_concluding_turn,
                 negotiation_status, current_ambiguity_score,
                 ambiguity_score_reason, ambiguity_history,
                 calls, outcomes, routed, input, last_check, prompt>>

\* agent_node, then the conditional edge; response['turn_roster'] raises
\* KeyError when generate_agent_response returned without that key
AgentNode ==
  /\ pc = "agent_turn"
  /\ Ran("agent_turn")
  /\ \E resp \in PersonaResponses :
       \E response \in {GenerateAgentResponse(dialogue_history, turn_roster,
                                               stakeholders, resp)} :
           /\ dialogue_history' = response.dialogue_history
           /\ turn_roster' = response.turn_roster
           /\ pc' = IF response.has_roster
                      THEN AfterAgentTurn(difficulty_level) ELSE "raised"
           /\ calls' = IF response.called
                         THEN Append(calls, "persona") ELSE calls
           /\ outcomes' = IF response.called
                            THEN Append(outcomes, resp = "ok") ELSE outcomes
           /\ reply' = IF response.called THEN [kind |-> resp] ELSE NoReply
           /\ prompt' = IF response.called
                          THEN GenerateSystemPrompt(Head(turn_roster),
                                                    stakeholders)
                          ELSE prompt
  /\ UNCHANGED <<persistence, config, is_concluding_turn, negotiation_status,
                 current_ambiguity_score, ambiguity_score_reason,
                 ambiguity_history, routed, input, last_check>>

\* conflict_check_node, then the edge to main_loop_router
ConflictCheckNode ==
  /\ pc = "conflict_check"
  /\ Ran("conflict_check")
  /\ \E resp \in ConflictResponses :
       \E update \in {ConflictCheckAgent(difficulty_level,
                                          elicited_requirements,
                                          negotiation_status, resp)} :
           /\ negotiation_status' = update.negotiation_status
           /\ calls' = IF update.called
                         THEN Append(calls, "conflict") ELSE calls
           /\ reply' = IF update.called THEN resp ELSE NoReply
           /\ last_check' = IF update.called /\ resp.kind = "object"
                           THEN resp ELSE last_check
  /\ pc' = EdgeConflictCheck
  /\ UNCHANGED <<persistence, config, dialogue_history, turn_roster, is_concluding_turn,
                 current_ambiguity_score, ambiguity_score_reason,
                 ambiguity_history, outcomes, routed, input, prompt>>

Next ==
  \/ Invoke
  \/ EntryPoint
  \/ AmbiguityCheckNode
  \/ RouterNode
  \/ MainLoopRouter
  \/ AgentNode
  \/ ConflictCheckNode

\* conversation_graph.invoke(initial_state)
Spec == Init /\ [][Next]_vars

\* The steps of the graph runtime. Once invoked, it runs the graph's nodes
\* one after the other until it reaches END; nothing forces the student to
\* send a message.
GraphStep ==
  \/ EntryPoint
  \/ AmbiguityCheckNode
  \/ RouterNode
  \/ MainLoopRouter
  \/ AgentNode
  \/ ConflictCheckNode

LiveSpec == Spec /\ WF_vars(GraphStep)

\* The graph, agent_node alone or conflict_check_node alone, run on any
\* GraphState: the roster handed in is arbitrary (a role, a role no
\* stakeholder has, the sentinel).
NodeRosters == SeqUpTo({Librarian, BudgetOffice, END}, MaxRoster)

InvokeNode ==
  /\ pc = "idle"
  /\ \E sl \in StakeholderLists, d \in Difficulties,
        s \in {x \in Sessions : x.history # <<>>}, r \in NodeRosters :
       \/ Len(r) <= 1 /\ InvokeWith(sl, d, s, MsgThis, r, "start")
       \/ InvokeWith(sl, d, s, MsgThis, r, "agent_turn")
       \/ r = <<>> /\ InvokeWith(sl, d, s, MsgThis, r, "conflict_check")

NodeNext ==
  \/ InvokeNode
  \/ EntryPoint
  \/ AmbiguityCheckNode
  \/ RouterNode
  \/ MainLoopRouter
  \/ AgentNode
  \/ ConflictCheckNode

NodeSpec == Init /\ [][NodeNext]_vars

(***************************************************************************)
(* Student_Environment.py, firebase_service.py: the persisted session and  *)
(* the page scripts that run turns on it                                   *)
(***************************************************************************)
turn_vars ==
  <<pc, stakeholders, difficulty_level, elicited_requirements,
    dialogue_history, turn_roster, is_concluding_turn, negotiation_status,
    current_ambiguity_score, ambiguity_score_reason, ambiguity_history,
    visited, calls, outcomes, routed, input, reply,
                 last_check, prompt>>

\* find_active_session: the query for the scenario's and the student's
\* documents with status 'active', limit(1)
ActiveSessions == {i \in 1..Len(store) : store[i].status = "active"}

\* get_or_create_session, first half: the script asks for an active session
\* and resumes the one the query returns, if it returns one.
FindActiveSession(c) ==
  /\ client[c].pc = "find"
  /\ IF ActiveSessions = {}
       THEN client' = [client EXCEPT ![c].pc = "create"]
       ELSE \E active_session_id \in ActiveSessions :
              client' = [client EXCEPT ![c].pc = "fetch",
                                       ![c].session_id = active_session_id]
  /\ UNCHANGED <<store, turn_vars>>

\* get_or_create_session, second half, and create_session: a new document
\* with status 'active' and the scenario's difficulty level; a document
\* without the ambiguity keys reads as their defaults at the start of a turn.
CreateSession(c) ==
  /\ client[c].pc = "create"
  /\ \E d \in IF store = <<>> THEN Difficulties
                              ELSE {store[1].difficulty_level} :
       store' = Append(store,
                       [status |-> "active", difficulty_level |-> d,
                        negotiation_status |-> EmptyStatus,
                        current_ambiguity_score |-> NoScore,
                        ambiguity_score_reason |-> "",
                        ambiguity_history |-> <<>>])
  /\ client' = [client EXCEPT ![c].pc = "fetch",
                              ![c].session_id = Len(store) + 1]
  /\ UNCHANGED turn_vars

\* The page script fetches its session's document at the start of a run.
GetSession(c) ==
  /\ client[c].pc = "fetch"
  /\ client[c].turns < MaxTurns
  /\ client' = [client EXCEPT
                  ![c].pc = "invoke",
                  ![c].session_data = store[client[c].session_id]]
  /\ UNCHANGED <<store, turn_vars>>

\* What conversation_graph.invoke returns for the persisted fields: the
\* ambiguity scorer runs once unless the level is expert; the page passes no
\* elicited_requirements, so a conflict check sees an empty list.
TurnResult(session_data, resp, spoke) ==
  LET d == session_data.difficulty_level
      scored == AmbiguityScorerAgent(session_data.ambiguity_history, resp)
      checked == ConflictCheckAgent(d, <<>>, session_data.negotiation_status,
                                    [kind |-> "error", object |-> EmptyStatus])
  IN  [session_data EXCEPT
         !.current_ambiguity_score =
            IF d = Hard THEN @ ELSE scored.current_ambiguity_score,
         !.ambiguity_score_reason =
            IF d = Hard THEN @ ELSE scored.ambiguity_score_reason,
         !.ambiguity_history =
            IF d = Hard THEN @ ELSE scored.ambiguity_history,
         !.negotiation_status =
            IF spoke THEN checked.negotiation_status ELSE @]

\* The student sends a message: the script builds initial_state from its
\* session_data, invokes the graph and copies the result into session_data.
InvokeGraph(c) ==
  /\ client[c].pc = "invoke"
  /\ \E resp \in AmbiguityResponses, spoke \in BOOLEAN :
       \E final_state \in {TurnResult(client[c].session_data, resp, spoke)} :
          client' = [client EXCEPT ![c].pc = "update",
                                   ![c].session_data = final_state]
  /\ UNCHANGED <<store, turn_vars>>

\* update_session: doc_ref.update overwrites the four fields it is given
\* with the script's values; st.rerun() then starts the next run.
UpdateSession(c) ==
  /\ client[c].pc = "update"
  /\ store' = [store EXCEPT ![client[c].session_id] = [@ EXCEPT
       !.negotiation_status = client[c].session_data.negotiation_status,
       !.current_ambiguity_score =
          client[c].session_data.current_ambiguity_score,
       !.ambiguity_score_reason =
          client[c].session_data.ambiguity_score_reason,
       !.ambiguity_history = client[c].session_data.ambiguity_history]]
  /\ client' = [client EXCEPT ![c].pc = "fetch", ![c].turns = @ + 1]
  /\ UNCHANGED turn_vars

SessionNext ==
  \/ \E c \in Clients : FindActiveSession(c)
  \/ \E c \in Clients : CreateSession(c)
  \/ \E c \in Clients : GetSession(c)
  \/ \E c \in Clients : InvokeGraph(c)
  \/ \E c \in Clients : UpdateSession(c)

SessionSpec == Init /\ [][SessionNext]_vars

TypeOK ==
  /\ pc \in {"idle", "start", "ambiguity_check", "router", "main_loop_router",
             "agent_turn", "conflict_check", "end", "raised"}
  /\ is_concluding_turn \in BOOLEAN
  /\ Len(visited) <= MaxSteps

\* The persisted fields a finished turn returns are those TurnResult gives
\* for the state the page invokes the graph with (no elicited_requirements).
TurnResultAgrees ==
  (pc = "end" /\ elicited_requirements = <<>>)
  => \E resp \in AmbiguityResponses, spoke \in BOOLEAN :
       LET before == [status |-> "active",
                      difficulty_level |-> difficulty_level,
                      negotiation_status |-> input.negotiation_status,
                      current_ambiguity_score |-> input.current_ambiguity_score,
                      ambiguity_score_reason |-> input.ambiguity_score_reason,
                      ambiguity_history |-> input.ambiguity_history]
           after == TurnResult(before, resp, spoke)
       IN  /\ after.negotiation_status = negotiation_status
           /\ after.current_ambiguity_score = current_ambiguity_score
           /\ after.ambiguity_score_reason = ambiguity_score_reason
           /\ after.ambiguity_history = ambiguity_history

\* The history variables last_check and prompt record what the turn state
\* already determines; they add no state.
HistoryDetermined ==
  /\ last_check.kind \in {"none", "object"}
  /\ prompt = NoPrompt \/ InSeq(prompt.role, routed)

\* the step budget never stops a turn
StepBudgetNeverBinds ==
  pc \notin {"end", "raised"} => Len(visited) < MaxSteps


(***************************************************************************)
(* Properties                                                              *)
(***************************************************************************)
Count(seq, x) == Cardinality({i \in 1..Len(seq) : seq[i] = x})

NewMessages ==
  SubSeq(dialogue_history, Len(input.dialogue_history) + 1,
         Len(dialogue_history))

C2_RosterMonotonicity ==
  [][pc = "agent_turn" => turn_roster' = Tail(turn_roster)]_vars

C2_Witness ==
  /\ outcomes = <<FALSE>>
  /\ Last(visited) = "agent_turn"
  /\ Len(routed) = 2
  /\ routed[1] # routed[2]
  /\ turn_roster = Tail(routed)

\* C3: when agent_turn runs with a roster whose head matches no stakeholder
\* role, it appends one system message, removes the roster head and does not
\* raise.
C3_ConfigFailureAbsorbed ==
  [][(/\ pc = "agent_turn"
      /\ turn_roster # <<>>
      /\ ~InSeq(Head(turn_roster), stakeholders))
     => /\ pc' # "raised"
        /\ turn_roster' = Tail(turn_roster)
        /\ dialogue_history'
             = Append(dialogue_history, Message(System, ErrorText))]_vars

\* C4: a turn whose router roster r1..rN has no END entry ends with exactly
\* N new messages, the i-th of role ri when its completion call succeeded
\* and of role "system" when it failed.
C4_OneReplyPerSpeaker ==
  (pc = "end" /\ ~InSeq(END, routed)) =>
    /\ Len(NewMessages) = Len(routed)
    /\ Len(outcomes) = Len(routed)
    /\ SubSeq(dialogue_history, 1, Len(input.dialogue_history))
         = input.dialogue_history
    /\ \A i \in 1..Len(routed) :
         NewMessages[i].role = IF outcomes[i] THEN routed[i] ELSE System

C4_Witness ==
  /\ pc = "end"
  /\ Len(routed) = 2
  /\ routed[1] # routed[2]
  /\ outcomes = <<TRUE, FALSE>>
  /\ Len(NewMessages) = 2

\* C5: the router node runs exactly once per turn, before the first
\* agent_turn, and the loop never returns to it.
C5_RouterOnce ==
  /\ Count(visited, "router") <= 1
  /\ pc \in {"main_loop_router", "agent_turn", "conflict_check", "end"}
       => Count(visited, "router") = 1
  /\ \A i \in 1..Len(visited) :
       visited[i] = "agent_turn" => \E j \in 1..(i - 1) : visited[j] = "router"
  /\ \A i \in 1..Len(visited) :
       visited[i] = "router" => \A j \in 1..(i - 1) : visited[j] = "ambiguity_check"

C5_Witness ==
  /\ pc = "end"
  /\ difficulty_level = Easy
  /\ Count(visited, "agent_turn") = 2
  /\ Count(visited, "conflict_check") = 2
  /\ Count(visited, "router") = 1

\* C6: in expert mode ambiguity_check never runs and the ambiguity state
\* stays equal to the input; at any other difficulty it runs exactly once,
\* as the first node, right before the router.
C6_EntryBranch ==
  /\ difficulty_level = Hard =>
       /\ Count(visited, "ambiguity_check") = 0
       /\ current_ambiguity_score = input.current_ambiguity_score
       /\ ambiguity_score_reason = input.ambiguity_score_reason
       /\ ambiguity_history = input.ambiguity_history
  /\ difficulty_level # Hard =>
       /\ Count(visited, "ambiguity_check") <= 1
       /\ visited # <<>> => visited[1] = "ambiguity_check"
       /\ Len(visited) >= 2 => visited[2] = "router"
       /\ pc = "end" => Count(visited, "ambiguity_check") = 1

C6_Witness ==
  /\ pc = "end"
  /\ difficulty_level = Hard
  /\ input.ambiguity_history # <<>>
  /\ Count(visited, "agent_turn") >= 1

\* C7: at a non-expert difficulty every agent_turn is immediately followed
\* by one conflict_check, which returns to the loop controller; in expert
\* mode conflict_check never runs.
C7_PostSpeakerBranch ==
  /\ difficulty_level = Hard => Count(visited, "conflict_check") = 0
  /\ difficulty_level # Hard =>
       /\ \A i \in 1..Len(visited) :
            visited[i] = "agent_turn" =>
              IF i < Len(visited) THEN visited[i + 1] = "conflict_check"
                                  ELSE pc = "conflict_check"
       /\ \A i \in 1..Len(visited) :
            visited[i] = "conflict_check" =>
              /\ i > 1 /\ visited[i - 1] = "agent_turn"
              /\ IF i < Len(visited) THEN visited[i + 1] = "main_loop_router"
                                     ELSE pc = "main_loop_router"
       /\ pc \in {"main_loop_router", "end"} =>
            Count(visited, "conflict_check") = Count(visited, "agent_turn")

C7_Witness ==
  /\ pc = "end"
  /\ difficulty_level = Medium
  /\ Count(visited, "agent_turn") = 2
  /\ Count(visited, "conflict_check") = 2

\* C8: at the terminal state end the roster is the empty sequence or
\* exactly <<"END">>.
C8_RosterAtEnd ==
  pc = "end" => (turn_roster = <<>> \/ turn_roster = <<END>>)

C8_Witness ==
  /\ pc = "end"
  /\ turn_roster = <<>>
  /\ Len(routed) = 2

\* C9 as stated: the roster a turn returns is always empty.
C9_RosterAlwaysEmpty ==
  pc = "end" => turn_roster = <<>>

\* C9 amended: the roster a turn returns is empty when the router produced
\* a roster of roles, and is the unconsumed <<"END">> when routing failed.
C9_RosterConsumedOrSentinel ==
  pc = "end" =>
    IF routed = <<END>> THEN turn_roster = <<END>> ELSE turn_roster = <<>>

C9_Witness ==
  /\ pc = "end"
  /\ routed = <<END>>
  /\ turn_roster = <<END>>
  /\ Last(calls) = "routing"
  /\ is_concluding_turn

\* C10: when the latest human message, lower-cased and trimmed, is a
\* broadcast greeting, the router returns the whole stakeholder role list in
\* configured order with is_concluding false and calls no completion
\* service.
BroadcastMessages == {MsgHiEveryone, MsgHiEveryoneRaw, MsgHey}

C10_BroadcastRule ==
  [][(pc = "router" /\ Last(dialogue_history).content \in BroadcastMessages)
     => /\ turn_roster' = stakeholders
        /\ is_concluding_turn' = FALSE
        /\ calls' = calls]_vars

C10_Witness ==
  /\ pc = "main_loop_router"
  /\ Last(visited) = "router"
  /\ Last(dialogue_history).content = MsgHiEveryoneRaw
  /\ stakeholders = <<Librarian, DirectorOfITSecurity>>
  /\ turn_roster = <<Librarian, DirectorOfITSecurity>>
  /\ ~is_concluding_turn
  /\ ~InSeq("routing", calls)

\* A candidate hits a role when, both lower-cased, it is a substring of it.
Hit(candidate, role) == Contains(Lower(candidate), Lower(role))

\* The first place a role is hit, candidates counted before roles.
FirstHit(role, candidates, roles) ==
  LET hits == { <<i, j>> \in (1..Len(candidates)) \X (1..Len(roles)) :
                  roles[j] = role /\ Hit(candidates[i], roles[j]) }
  IN  CHOOSE h \in hits :
        \A g \in hits : h[1] < g[1] \/ (h[1] = g[1] /\ h[2] <= g[2])

Earlier(h, g) == h[1] < g[1] \/ (h[1] = g[1] /\ h[2] < g[2])

\* C11: on a successful routing response of which some candidate hits an
\* official role, the roster the router returns holds exactly the roles hit
\* by some candidate, each once, in the order of their first hit (candidate
\* order first, role order second); "IT Security, Librarian" over the roles
\* Head Librarian, Director of IT Security gives Director of IT Security,
\* Head Librarian.
C11_FuzzyRouting ==
  [][(pc = "router" /\ reply'.kind = "object" /\ ~Falsy(reply'.roster))
     => LET candidates == LlmChoices(reply'.roster)
            roles == stakeholders
            matched == { roles[j] : j \in { k \in 1..Len(roles) :
                           \E i \in 1..Len(candidates) :
                              Hit(candidates[i], roles[k]) } }
        IN  /\ matched # {} =>
                /\ { turn_roster'[p] : p \in 1..Len(turn_roster') } = matched
                /\ \A p, q \in 1..Len(turn_roster') :
                      p < q => Earlier(FirstHit(turn_roster'[p], candidates, roles),
                                       FirstHit(turn_roster'[q], candidates, roles))
            /\ ( /\ reply'.roster = RosterValue("str", StrITSecurityLibrarian, <<>>)
                 /\ roles = <<HeadLibrarian, DirectorOfITSecurity>> )
               => turn_roster' = <<DirectorOfITSecurity, HeadLibrarian>>]_vars

C11_Witness ==
  /\ pc = "main_loop_router"
  /\ Last(visited) = "router"
  /\ reply.kind = "object"
  /\ reply.roster = RosterValue("str", StrITSecurityLibrarian, <<>>)
  /\ stakeholders = <<HeadLibrarian, DirectorOfITSecurity>>
  /\ turn_roster = <<DirectorOfITSecurity, HeadLibrarian>>

\* No candidate of the roster value hits an official role (a falsy roster
\* value has no candidates).
NoCandidateResolves(rv, roles) ==
  \/ Falsy(rv)
  \/ \A i \in 1..Len(LlmChoices(rv)), j \in 1..Len(roles) :
        ~Hit(LlmChoices(rv)[i], roles[j])

\* C12: when the routing call fails, or its answer is not parsable JSON, or
\* no candidate resolves to an official role, the router returns exactly the
\* roster <<"END">> with is_concluding true, and the graph goes on to
\* main_loop_router (nothing is raised).
C12_RoutingFailsClosed ==
  [][(/\ pc = "router"
      /\ reply'.kind # "none"
      /\ \/ reply'.kind \in {"error", "unparsable"}
         \/ NoCandidateResolves(reply'.roster, stakeholders))
     => /\ turn_roster' = <<END>>
        /\ is_concluding_turn' = TRUE
        /\ pc' = "main_loop_router"]_vars

C12_Witness ==
  /\ pc = "main_loop_router"
  /\ Last(visited) = "router"
  /\ reply.kind = "object"
  /\ reply.roster = RosterValue("str", BudgetOffice, <<>>)
  /\ stakeholders = <<HeadLibrarian, DirectorOfITSecurity>>
  /\ turn_roster = <<END>>
  /\ is_concluding_turn

\* C13: when the service raises on the ambiguity call, the scorer does not
\* raise: the current score becomes 10, the history gains exactly one entry,
\* 10, after its earlier entries, and the turn goes on to the router.
C13_AmbiguityFailOpen ==
  [][(pc = "ambiguity_check" /\ reply'.kind = "error")
     => /\ current_ambiguity_score' = IntScore(10)
        /\ ambiguity_history' = Append(ambiguity_history, IntScore(10))
        /\ pc' = "router"]_vars

C13_Witness ==
  /\ pc = "router"
  /\ reply.kind = "error"
  /\ Last(visited) = "ambiguity_check"
  /\ current_ambiguity_score = IntScore(10)
  /\ ambiguity_history = <<IntScore(3), IntScore(10)>>

ValidScores == { IntScore(k) : k \in 1..10 }

\* C14: after every execution of the Ambiguity Scorer that got a JSON
\* object from the service, the current score and the entry appended to the
\* history are integers in 1..10.
C14_ScoreInRange ==
  (/\ visited # <<>>
   /\ Last(visited) = "ambiguity_check"
   /\ reply.kind = "object")
  => /\ current_ambiguity_score \in ValidScores
     /\ Last(ambiguity_history) \in ValidScores

\* C15: at the expert level the Conflict Checker returns the negotiation
\* status it was given and calls no service, and all along an expert-level
\* turn the negotiation status equals the one the turn was invoked with.
C15_ExpertPassThrough ==
  /\ [][(pc = "conflict_check" /\ difficulty_level = Hard)
        => /\ negotiation_status' = negotiation_status
           /\ calls' = calls]_vars
  /\ [](difficulty_level = Hard
        => negotiation_status = input.negotiation_status)

C15_Witness ==
  /\ pc = "main_loop_router"
  /\ Last(visited) = "conflict_check"
  /\ difficulty_level = Hard
  /\ negotiation_status = PriorStatus
  /\ calls = <<>>

\* The Conflict Checker has just run and the service gave it a JSON object.
ConflictCheckSucceeded ==
  /\ visited # <<>>
  /\ Last(visited) = "conflict_check"
  /\ reply.kind = "object"

\* C16: at the hint level, every "Disputed" entry of the status a successful
\* Conflict Checker run returns has the empty string as its reason.
C16_HintReasonsSuppressed ==
  (ConflictCheckSucceeded /\ difficulty_level = Medium)
  => \A k \in DOMAIN negotiation_status :
        negotiation_status[k].status = "Disputed"
          => negotiation_status[k].reason = ""

\* C17: at the tutor level, every "Disputed" entry of the status a
\* successful Conflict Checker run returns has a non-empty reason.
C17_TutorReasonsPresent ==
  (ConflictCheckSucceeded /\ difficulty_level = Easy)
  => \A k \in DOMAIN negotiation_status :
        negotiation_status[k].status = "Disputed"
          => negotiation_status[k].reason # ""

\* C18: the keys of the status a successful Conflict Checker run returns
\* are exactly the requirement strings it was given.
C18_KeySpace ==
  ConflictCheckSucceeded
  => DOMAIN negotiation_status =
       { elicited_requirements[i] : i \in 1..Len(elicited_requirements) }

\* C19: when the conflict call fails or its answer is not parsable JSON,
\* the Conflict Checker does not raise and the negotiation status after it
\* is the status before it.
C19_ConflictFailureKeepsStatus ==
  [][(pc = "conflict_check" /\ reply'.kind \in {"error", "unparsable"})
     => /\ negotiation_status' = negotiation_status
        /\ pc' = "main_loop_router"]_vars

C19_Witness ==
  /\ pc = "main_loop_router"
  /\ Last(visited) = "conflict_check"
  /\ reply.kind = "unparsable"
  /\ difficulty_level = Medium
  /\ elicited_requirements = <<"R1", "R2">>
  /\ negotiation_status = PriorStatus

RECURSIVE TurnsWritten(_)
TurnsWritten(S) ==
  IF S = {} THEN 0
  ELSE LET c == CHOOSE x \in S : TRUE
       IN  client[c].turns + TurnsWritten(S \ {c})

\* C20: turns of the same session do not lose each other's updates of the
\* persisted record: below the expert level, the persisted ambiguity_history
\* holds one score for every turn that has been written back, also when two
\* turns read the record before either wrote.
C20_NoLostUpdate ==
  \A id \in 1..Len(store) :
    store[id].difficulty_level # Hard
    => Len(store[id].ambiguity_history)
         = TurnsWritten({c \in Clients : client[c].session_id = id})

IsPrefix(s, t) == Len(s) <= Len(t) /\ SubSeq(t, 1, Len(s)) = s

\* C21: during a turn the dialogue history only grows at its end: the
\* history the turn was invoked with is a prefix of the current history,
\* every execution of agent_turn appends exactly one message after the
\* messages already there, and no other node touches the history.
C21_HistoryAppendOnly ==
  /\ [](pc # "idle" => IsPrefix(input.dialogue_history, dialogue_history))
  /\ [][pc # "idle"
        => IF pc = "agent_turn"
             THEN /\ Len(dialogue_history') = Len(dialogue_history) + 1
                  /\ IsPrefix(dialogue_history, dialogue_history')
             ELSE dialogue_history' = dialogue_history]_vars

C21_Witness ==
  /\ pc = "end"
  /\ outcomes = <<TRUE, FALSE>>
  /\ Len(input.dialogue_history) = 3
  /\ Len(dialogue_history) = 5
  /\ IsPrefix(input.dialogue_history, dialogue_history)

\* C22: once the router has run, every entry of the roster is the sentinel
\* "END" or the role of a configured stakeholder, whatever the service
\* answered to the routing call.
C22_RosterEntriesConfigured ==
  InSeq("router", visited)
  => \A i \in 1..Len(turn_roster) :
        turn_roster[i] = END \/ InSeq(turn_roster[i], stakeholders)

C22_Witness ==
  /\ pc = "agent_turn"
  /\ InSeq("routing", calls)
  /\ Count(visited, "agent_turn") = 1
  /\ turn_roster = <<HeadLibrarian>>
  /\ stakeholders = <<DirectorOfITSecurity, HeadLibrarian>>

\* C23: every message appended to the dialogue history during a turn has
\* the role "system" or the role of a configured stakeholder; none has the
\* role "END" or a role outside the stakeholder list.
C23_AppendedRoles ==
  \A i \in 1..Len(NewMessages) :
     /\ NewMessages[i].role # END
     /\ \/ NewMessages[i].role = System
        \/ InSeq(NewMessages[i].role, stakeholders)

C23_Witness ==
  /\ pc = "end"
  /\ Len(NewMessages) = 2
  /\ NewMessages[1].role = System
  /\ NewMessages[2].role = Librarian

\* The node that follows a node, given the difficulty and the roster the
\* node left behind.
NodeAfter(node, difficulty, roster) ==
  CASE node = "ambiguity_check" -> "router"
    [] node = "router" -> "main_loop_router"
    [] node = "main_loop_router" ->
         IF roster = <<>> THEN "end"
         ELSE IF Head(roster) = END THEN "end" ELSE "agent_turn"
    [] node = "agent_turn" ->
         IF difficulty = Hard THEN "main_loop_router" ELSE "conflict_check"
    [] node = "conflict_check" -> "main_loop_router"

\* C24: is_concluding does not steer the turn: a turn whose router returned
\* is_concluding true with a roster of roles still runs agent_turn once per
\* roster entry; the node that follows a node depends on that node, the
\* difficulty and the roster only; and only the router writes the flag.
C24_ConcludingIsInformational ==
  /\ []((/\ pc = "end"
         /\ is_concluding_turn
         /\ routed # <<>>
         /\ Head(routed) # END)
        => Count(visited, "agent_turn") = Len(routed))
  /\ [][visited' # visited
        => pc' = NodeAfter(Last(visited'), difficulty_level, turn_roster')]_vars
  /\ [][pc \notin {"idle", "router"}
        => is_concluding_turn' = is_concluding_turn]_vars

C24_Witness ==
  /\ pc = "end"
  /\ is_concluding_turn
  /\ Len(routed) = 2
  /\ Head(routed) # END
  /\ Count(visited, "agent_turn") = 2

\* C25: the loop controller goes to end exactly when the roster is empty or
\* headed by "END" and to agent_turn otherwise, so agent_turn is only ever
\* entered with a non-empty roster whose head is not "END".
C25_LoopController ==
  /\ [][pc = "main_loop_router"
        => /\ pc' \in {"end", "agent_turn"}
           /\ (pc' = "end") <=>
                (turn_roster = <<>> \/ Head(turn_roster) = END)]_vars
  /\ [](pc = "agent_turn"
        => turn_roster # <<>> /\ Head(turn_roster) # END)

C25_Witness ==
  /\ pc = "agent_turn"
  /\ Count(visited, "main_loop_router") = 2
  /\ Len(turn_roster) = 1
  /\ InSeq(Head(turn_roster), stakeholders)

\* C26: a successful routing response never has one candidate add two or
\* more roles to the roster: of the roles of the returned roster, at most
\* one has its first hit at any given candidate.
C26_OneRolePerCandidate ==
  [][(/\ pc = "router"
      /\ reply'.kind = "object"
      /\ ~Falsy(reply'.roster)
      /\ turn_roster' # <<END>>)
     => LET candidates == LlmChoices(reply'.roster)
            roles == stakeholders
        IN  \A i \in 1..Len(candidates) :
               Cardinality({ p \in 1..Len(turn_roster') :
                             FirstHit(turn_roster'[p], candidates, roles)[1] = i })
                 <= 1]_vars

\* ", ".join(candidates)
RECURSIVE JoinComma(_)
JoinComma(candidates) ==
  IF candidates = <<>> THEN <<>>
  ELSE IF Len(candidates) = 1 THEN Head(candidates)
  ELSE Head(candidates) \o <<",", " ">> \o JoinComma(Tail(candidates))

\* C27: a routing response whose roster is an array of candidates gives the
\* roster and the is_concluding that the response with the same candidates
\* joined by ", " into one string gives.
C27_FormatIndependent ==
  [][(pc = "router" /\ reply'.kind = "object" /\ reply'.roster.t = "list")
     => LET joined == RosterValue("str", JoinComma(reply'.roster.l), <<>>)
            other == GetRoutingChoice(dialogue_history, stakeholders,
                                      [reply' EXCEPT !.roster = joined])
        IN  /\ turn_roster' = other.roster
            /\ is_concluding_turn' = other.is_concluding]_vars

\* C28: across the turns of one session the persisted ambiguity history
\* only grows at its end: the write-back of a turn below the expert level
\* leaves the earlier entries in place and adds exactly one entry after
\* them, and the write-back of an expert-level turn leaves the history as
\* it was.
C28_AmbiguityHistoryGrows ==
  [][\A c \in Clients :
       (client[c].pc = "update" /\ client'[c].pc = "fetch")
       => LET before == store[client[c].session_id]
              after == store'[client[c].session_id]
          IN  IF before.difficulty_level = Hard
                THEN after.ambiguity_history = before.ambiguity_history
                ELSE /\ Len(after.ambiguity_history) =
                          Len(before.ambiguity_history) + 1
                     /\ IsPrefix(before.ambiguity_history,
                                 after.ambiguity_history)]_vars

\* C29: a successful conflict check replaces the negotiation status as a
\* whole: the status after it is the mapping the service returned, and no
\* entry of the previous status survives under a key the mapping lacks.
C29_WholesaleReplacement ==
  [][(pc = "conflict_check" /\ reply'.kind = "object")
     => /\ negotiation_status' = reply'.object
        /\ \A k \in DOMAIN negotiation_status \ DOMAIN reply'.object :
              k \notin DOMAIN negotiation_status']_vars

C29_Witness ==
  /\ pc = "main_loop_router"
  /\ reply.kind = "object"
  /\ Last(visited) = "conflict_check"
  /\ Count(visited, "conflict_check") = 1
  /\ input.negotiation_status = PriorStatus
  /\ DOMAIN negotiation_status = {"R2"}

C31_EmptyTurnFrame ==
  (InSeq("router", visited) /\ (routed = <<END>> \/ routed = <<>>))
  => /\ ~InSeq("agent_turn", visited)
     /\ ~InSeq("conflict_check", visited)
     /\ dialogue_history = input.dialogue_history
     /\ negotiation_status = input.negotiation_status

C31_Witness ==
  /\ pc = "end"
  /\ routed = <<END>>
  /\ difficulty_level = Easy
  /\ elicited_requirements = <<"R1", "R2">>
  /\ negotiation_status = PriorStatus
  /\ Len(dialogue_history) = 3
  /\ dialogue_history = input.dialogue_history

\* C32: the roster handed in with the turn input has no effect. From the
\* entry point only ambiguity_check and router run before the loop
\* controller, neither changes anything on account of the roster, and the
\* router replaces the roster by a value computed from the dialogue
\* history, the stakeholders and the service's answer alone; the speakers of
\* the turn are then those of the router's roster.
C32_InputRosterIgnored ==
  [][/\ pc = "start"
        => /\ pc' \in {"ambiguity_check", "router"}
           /\ turn_roster' = turn_roster
     /\ pc = "ambiguity_check"
        => /\ pc' = "router"
           /\ turn_roster' = turn_roster
           /\ dialogue_history' = dialogue_history
           /\ negotiation_status' = negotiation_status
     /\ pc = "router"
        => /\ pc' = "main_loop_router"
           /\ turn_roster' = GetRoutingChoice(dialogue_history, stakeholders,
                                               reply').roster
     /\ (pc' = "end" /\ InSeq("router", visited'))
        => /\ turn_roster' \in {<<>>, <<END>>}
           /\ Count(visited', "agent_turn")
                = (IF routed' = <<END>> THEN 0 ELSE Len(routed'))
           /\ Len(NewMessages') = Count(visited', "agent_turn")]_vars

C32_Witness ==
  /\ pc = "end"
  /\ InSeq("router", visited)
  /\ input.turn_roster = <<BudgetOffice>>
  /\ difficulty_level = Hard
  /\ stakeholders = <<HeadLibrarian, Librarian>>
  /\ routed = <<HeadLibrarian, Librarian>>
  /\ turn_roster = <<>>
  /\ Count(visited, "agent_turn") = 2

Distinct(seq) == \A i, j \in 1..Len(seq) : seq[i] = seq[j] => i = j

\* C33: when no two stakeholders have the same role, the roster the router
\* produced names no role twice, whether it came from the broadcast or from
\* the service's answer; no persona then speaks twice in the turn, and
\* agent_turn runs at most once per configured stakeholder.
C33_NoRoleTwice ==
  (InSeq("router", visited) /\ Distinct(stakeholders))
  => /\ Distinct(routed)
     /\ Count(visited, "agent_turn") <= Len(stakeholders)
     /\ \A i, j \in 1..Len(NewMessages) :
          (NewMessages[i].role = NewMessages[j].role
             /\ NewMessages[i].role # System) => i = j

C33_Witness ==
  /\ pc = "end"
  /\ stakeholders = <<HeadLibrarian, Librarian>>
  /\ input.dialogue_history[Len(input.dialogue_history)].content = MsgThis
  /\ routed = <<HeadLibrarian, Librarian>>
  /\ Count(visited, "agent_turn") = 2
  /\ NewMessages = <<Message(HeadLibrarian, ReplyText),
                     Message(Librarian, ReplyText)>>

\* The states a turn visits before the loop, and those of the loop over a
\* roster
VisitedBeforeLoop(difficulty) ==
  IF difficulty = Hard THEN <<"router">> ELSE <<"ambiguity_check", "router">>

RECURSIVE VisitedInLoop(_, _)
VisitedInLoop(difficulty, roster) ==
  IF roster = <<>> \/ Head(roster) = END THEN <<"main_loop_router">>
  ELSE <<"main_loop_router", "agent_turn">>
       \o (IF difficulty = Hard THEN <<>> ELSE <<"conflict_check">>)
       \o VisitedInLoop(difficulty, Tail(roster))

\* C34: the states a turn visits, and their order, are fixed by the
\* difficulty level and the roster the router produced: whatever the
\* ambiguity call, the persona calls and the conflict-check calls answer,
\* the visited sequence is always a prefix of that one sequence, and is the
\* whole of it at end.
C34_PathFixedByRoster ==
  LET whole == VisitedBeforeLoop(difficulty_level)
                 \o VisitedInLoop(difficulty_level, routed)
  IN  IF InSeq("router", visited)
        THEN /\ IsPrefix(visited, whole)
             /\ pc = "end" => visited = whole
             /\ pc # "raised"
        ELSE IsPrefix(visited, VisitedBeforeLoop(difficulty_level))

C34_Witness ==
  /\ pc = "end"
  /\ difficulty_level = Medium
  /\ elicited_requirements = <<"R1", "R2">>
  /\ Len(routed) = 2
  /\ current_ambiguity_score = IntScore(10)
  /\ outcomes = <<FALSE, TRUE>>
  /\ negotiation_status = PriorStatus
  /\ Count(calls, "conflict") = 2
  /\ visited = <<"ambiguity_check", "router", "main_loop_router",
                 "agent_turn", "conflict_check", "main_loop_router",
                 "agent_turn", "conflict_check", "main_loop_router">>

ambiguity_fields ==
  <<current_ambiguity_score, ambiguity_score_reason, ambiguity_history>>

\* C35: every node changes its own part of the turn state only:
\* ambiguity_check the score, the reason and the score history; router the
\* roster and the concluding flag; agent_turn the dialogue history and the
\* roster; conflict_check the negotiation status; the entry point and the
\* loop controller nothing. The stakeholders, the difficulty and the
\* requirement list change in no step of a turn.
C35_NodeFrames ==
  [][/\ pc # "idle" => UNCHANGED config
     /\ pc = "ambiguity_check"
        => UNCHANGED <<dialogue_history, turn_roster, is_concluding_turn,
                       negotiation_status>>
     /\ pc = "router"
        => UNCHANGED <<dialogue_history, negotiation_status,
                       ambiguity_fields>>
     /\ pc = "agent_turn"
        => UNCHANGED <<is_concluding_turn, negotiation_status,
                       ambiguity_fields>>
     /\ pc = "conflict_check"
        => UNCHANGED <<dialogue_history, turn_roster, is_concluding_turn,
                       ambiguity_fields>>
     /\ pc \in {"start", "main_loop_router"}
        => UNCHANGED <<dialogue_history, turn_roster, is_concluding_turn,
                       negotiation_status, ambiguity_fields>>]_vars

\* Every node has changed its part: the score, the roster, the history and
\* the status all differ from the input's.
C35_Witness ==
  /\ pc = "end"
  /\ difficulty_level = Easy
  /\ InSeq("conflict_check", visited)
  /\ ambiguity_history # input.ambiguity_history
  /\ current_ambiguity_score # input.current_ambiguity_score
  /\ routed # input.turn_roster
  /\ is_concluding_turn
  /\ dialogue_history # input.dialogue_history
  /\ negotiation_status # input.negotiation_status

\* C36: in a turn below the expert level with a non-empty requirement list,
\* the negotiation status at end is the mapping returned by the last
\* conflict check of the turn whose call succeeded, and the status the turn
\* was invoked with if no conflict check succeeded or none ran.
C36_LastSuccessfulCheck ==
  (pc = "end" /\ difficulty_level # Hard /\ elicited_requirements # <<>>)
  => negotiation_status = IF last_check.kind = "object"
                            THEN last_check.object
                            ELSE input.negotiation_status

C36_Witness ==
  /\ pc = "end"
  /\ difficulty_level = Medium
  /\ elicited_requirements = <<"R1", "R2">>
  /\ input.negotiation_status = PriorStatus
  /\ Count(calls, "conflict") = 2
  /\ last_check.kind = "object"
  /\ negotiation_status = last_check.object
  /\ negotiation_status # PriorStatus

\* C38: the peer list of a persona's system prompt is the list of the roles
\* of all stakeholders, in configured order, without the entries equal to
\* the persona's own role: the own role is never among the peers, and the
\* list is a function of the persona's role and the stakeholder list only.
C38_PeerList ==
  prompt # NoPrompt
  => /\ prompt.other_roles
          = SelectSeq(stakeholders, LAMBDA r : r # prompt.role)
     /\ ~InSeq(prompt.role, prompt.other_roles)
     /\ \A r \in RoleNames :
          Count(prompt.other_roles, r)
            = (IF r = prompt.role THEN 0 ELSE Count(stakeholders, r))

C38_Witness ==
  /\ pc = "end"
  /\ stakeholders = <<HeadLibrarian, Librarian>>
  /\ routed = <<HeadLibrarian, Librarian>>
  /\ prompt = [role |-> Librarian, other_roles |-> <<HeadLibrarian>>]
  /\ Last(dialogue_history) = Message(Librarian, ReplyText)

\* C37: for the scenario and the student there is at most one session
\* document with status 'active' at any time, also when two page scripts run
\* get_or_create_session at the same time and both query for an active
\* session before either creates one.
C37_OneActiveSession == Cardinality(ActiveSessions) <= 1

====
